---- MODULE Spec2Model ----
(***************************************************************************)
(* Model of official/vision/classification/shufflenet/train.py: main()     *)
(* starting one worker process per GPU, worker() running the training /    *)
(* validation loop over the framework's collectives, valid(), and the      *)
(* AverageMeter class.                                                     *)
(*                                                                         *)
(* Numbers that the script computes with true division (learning rate,     *)
(* averages, metric values) are exact rationals <<n, d>> in lowest terms   *)
(* with d > 0; floating-point rounding is not modelled.                    *)
(*                                                                         *)
(* The framework calls are modelled by what the script relies on:          *)
(*   bcast_list_        every rank leaves with rank 0's values             *)
(*   all_reduce_sum     every rank leaves with the sum of the values       *)
(*   allreduce_cb MEAN  every rank leaves with the sum / world_size        *)
(*   a collective completes once all world_size ranks have entered it      *)
(* The checkpoint path <save>/<arch>/checkpoint.pkl is one file-system     *)
(* location seen by every worker of the run.                               *)
(***************************************************************************)
EXTENDS Integers, Sequences, FiniteSets, TLC

VARIABLES
    cfg,        \* the parsed args and the environment of the run
    mpc,        \* main(): position of each node's main process
    mnext,      \* main(): the next local_rank to start / to join
    servers,    \* the nodes that created a dist.Server
    pc,         \* worker(): position of each worker process
    wa,         \* worker(): the arguments main gave it, and its device
    tr,         \* worker(): training state (step, model, optimizer)
    mt,         \* worker(): the four AverageMeters of the training loop
    vl,         \* valid(): loop index, meters, values in flight
    coll,       \* the collective in progress and the last completed one
    fs,         \* the checkpoint directory and file
    hist,       \* per worker: what it did (steps, saves, log lines, collectives)
    meter,      \* an AverageMeter object of its own, and the calls made on it
    ep          \* the arithmetic of one epoch for given world_size and batch_size

vars == <<cfg, mpc, mnext, servers, pc, wa, tr, mt, vl, coll, fs, hist, meter, ep>>

-----------------------------------------------------------------------------
(* Bounds of the model *)

MaxWorld == 2        \* workers of a training run: nodes * ngpus <= MaxWorld
MaxEpochs == 2       \* args.epochs <= MaxEpochs
MaxValid == 1        \* validation batches per worker <= MaxValid
DataMaxWorld == 2    \* workers of a run that exercises the data
BootMaxWorld == 4    \* workers of a bootstrap-only run
MeterMaxCalls == 3   \* reset/update calls on the AverageMeter object
MeterMaxValid == 2   \* validation batches of the run beside it
EpochMaxWorld == 6   \* world sizes tried for steps_per_epoch

(* Program constants *)

TrainSetSize == 1280000   \* line 142
ValidBatchSize == 100     \* line 321

-----------------------------------------------------------------------------
(* Exact rationals.  The arithmetic is written as functions so that an argument    *)
(* is evaluated once, where it is applied.                                          *)

Abs(x) == IF x < 0 THEN -x ELSE x

GcdF[a \in Nat, b \in Nat] == IF b = 0 THEN a ELSE GcdF[b, a % b]
Gcd(a, b) == GcdF[a, b]

RatF[n \in Int, d \in Int] ==
    LET g == GcdF[Abs(n), Abs(d)]
        s == IF d < 0 THEN -1 ELSE 1
    IN  <<(s * n) \div g, (s * d) \div g>>
Rat(n, d) == RatF[n, d]

Int2Rat(i) == <<i, 1>>
Zero == <<0, 1>>
One == <<1, 1>>

RAddF[a \in Int \X Int, b \in Int \X Int] ==
    LET g == GcdF[a[2], b[2]]
        l == (a[2] \div g) * b[2]
    IN  RatF[a[1] * (l \div a[2]) + b[1] * (l \div b[2]), l]
RAdd(a, b) == RAddF[a, b]

RNeg(a) == <<-a[1], a[2]>>
RSub(a, b) == RAddF[a, RNeg(b)]

RMulF[a \in Int \X Int, b \in Int \X Int] ==
    LET g1 == GcdF[Abs(a[1]), b[2]]
        g2 == GcdF[Abs(b[1]), a[2]]
    IN  RatF[(a[1] \div g1) * (b[1] \div g2), (a[2] \div g2) * (b[2] \div g1)]
RMul(a, b) == RMulF[a, b]

RDiv(a, b) == RMul(a, <<b[2], b[1]>>)

RLess(a, b) == a[1] * b[2] < b[1] * a[2]

VAdd(u, v) ==
    [i \in 1..(IF Len(u) >= Len(v) THEN Len(u) ELSE Len(v)) |->
        RAdd(IF i <= Len(u) THEN u[i] ELSE Zero, IF i <= Len(v) THEN v[i] ELSE Zero)]

-----------------------------------------------------------------------------
(* class AverageMeter *)

\* AverageMeter.reset: the four fields are set to 0
reset == [val |-> Zero, avg |-> Zero, sum |-> Zero, count |-> 0]

\* a slip: the count advanced by one whatever n is
updateCountsCalls(m, val, n) ==
    LET sum == RAdd(m.sum, RMul(val, Int2Rat(n)))
        count == m.count + 1
    IN  [val |-> val, sum |-> sum, count |-> count, avg |-> RDiv(sum, Int2Rat(count))]

\* AverageMeter.update(val, n)
update(m, val, n) ==
    LET sum == RAdd(m.sum, RMul(val, Int2Rat(n)))
        count == m.count + n
    IN  [val |-> val, sum |-> sum, count |-> count, avg |-> RDiv(sum, Int2Rat(count))]

-----------------------------------------------------------------------------
(* Arithmetic of main() and worker() *)

\* a slip: the node rank not scaled by the GPUs of a node
WorkerRankUnscaled(node_rank, ngpus, local_rank) == node_rank + local_rank

\* main: rank=args.rank * ngpus_per_node + local_rank
WorkerRank(node_rank, ngpus, local_rank) == node_rank * ngpus + local_rank

\* main: world_size=args.world_size * ngpus_per_node
WorkerWorldSize(nodes, ngpus) == nodes * ngpus

\* worker: device=rank % ngpus_per_node
DeviceOf(rank, ngpus) == rank % ngpus

\* main: the server is created "if args.rank <= 0"
IsMaster(node_rank) == node_rank <= 0

\* a slip: the division rounded up
StepsPerEpochCeil(world_size, batch_size) ==
    (TrainSetSize + world_size * batch_size - 1) \div (world_size * batch_size)

\* worker: steps_per_epoch = 1280000 // (world_size * args.batch_size)
StepsPerEpoch(world_size, batch_size) == TrainSetSize \div (world_size * batch_size)

\* worker: args.lr = args.lr * world_size
ScaledLr(lr, world_size) == RMul(lr, Int2Rat(world_size))

\* worker: range(0, args.epochs * steps_per_epoch)
TotalSteps(epochs, spe) == epochs * spe

\* a slip: the decay counted from 1, which reaches 0 at the last step
LrAtNext(args_lr, step, epochs, spe) ==
    RMul(args_lr, RSub(One, Rat(step + 1, epochs * spe)))

\* adjust_learning_rate: lr = args.lr * (1 - step / (args.epochs * steps_per_epoch))
LrAt(args_lr, step, epochs, spe) ==
    RMul(args_lr, RSub(One, Rat(step, epochs * spe)))

\* adjust_learning_rate: for param_group in opt.param_groups: param_group["lr"] = lr
SetLr(groups, lr) == [g \in DOMAIN groups |-> [groups[g] EXCEPT !.lr = lr]]

\* a slip: the log condition without the rank test
LogsAtAnyRank(a, step, print_freq) == step % print_freq = 0

\* worker: the logging condition "step % args.print_freq == 0 and dist.get_rank() == 0"
get_rank(a) == IF a.world_size > 1 THEN a.rank ELSE 0

LogsAt(a, step, print_freq) == step % print_freq = 0 /\ get_rank(a) = 0

\* a slip: the epoch taken to end where a step index is a multiple of steps_per_epoch
EpochEndsAtStart(step, spe) == step % spe = 0

\* worker: the validation condition "(step + 1) % steps_per_epoch == 0"
EpochEndsAt(step, spe) == (step + 1) % spe = 0

\* worker: the saved "epoch": (step + 1) // steps_per_epoch
EpochOf(step, spe) == (step + 1) \div spe

\* optim.SGD with two parameter groups; opt.step(): weight decay, momentum, update
SgdStep(groups, params, vel, grad, momentum) ==
    LET g(i) == RAdd(grad[i], RMul(groups[i].weight_decay, params[i]))
        v(i) == RAdd(RMul(momentum, vel[i]), g(i))
    IN  [params |-> [i \in DOMAIN params |-> RSub(params[i], RMul(groups[i].lr, v(i)))],
         vel |-> [i \in DOMAIN params |-> v(i)]]

\* make_allreduce_cb("MEAN"): the gradient every rank applies
MeanOf(sum, world_size) == [i \in DOMAIN sum |-> RDiv(sum[i], Int2Rat(world_size))]

\* a slip: the division by world_size left out
ReducedSum(sum, world_size) == sum

\* valid_step: all_reduce_sum(x) / world_size
ReducedMean(sum, world_size) == RDiv(sum, Int2Rat(world_size))

-----------------------------------------------------------------------------
(* The data: what a mini-batch yields.  A batch is one of a few kinds; the  *)
(* kind decides the loss, the accuracies, the gradient, the load time and,  *)
(* for a validation batch, its number of images.                            *)

BatchKinds == {1, 2}
BatchLoss(b) == IF b = 1 THEN <<2, 1>> ELSE <<3, 1>>
BatchAcc1(b) == IF b = 1 THEN <<1, 2>> ELSE <<1, 4>>
BatchAcc5(b) == IF b = 1 THEN <<3, 4>> ELSE <<1, 1>>
BatchGrad(b) == IF b = 1 THEN <<<<1, 1>>, <<-1, 1>>>> ELSE <<<<-1, 1>>, <<2, 1>>>>
BatchTime(b) == IF b = 1 THEN <<1, 1>> ELSE <<2, 1>>
BatchImages(b) == IF b = 1 THEN ValidBatchSize ELSE ValidBatchSize \div 2

\* the values a freshly built model may hold (random initialisation)
InitParams == {<<Zero, Zero>>, <<One, <<1, 2>>>>}
ZeroVec == <<Zero, Zero>>

-----------------------------------------------------------------------------
(* Processes *)

Nodes == 0..(cfg.nodes - 1)
Procs == Nodes \X (0..(cfg.ngpus - 1))
NodeOf(w) == w[1]

NoArgs == [rank |-> -1, world_size |-> 0, ngpus_per_node |-> 0, device |-> -1]

Meters == [objs |-> reset, top1 |-> reset, top5 |-> reset, clck |-> reset]

\* objs.update(loss); top1.update(100 * acc1); top5.update(100 * acc5); clck.update(t)
UpdateMeters(m, loss, acc1, acc5, t, n) ==
    [objs |-> update(m.objs, loss, n),
     top1 |-> update(m.top1, RMul(Int2Rat(100), acc1), n),
     top5 |-> update(m.top5, RMul(Int2Rat(100), acc5), n),
     clck |-> update(m.clck, t, n)]

Counts(m) == <<m.objs.count, m.top1.count, m.top5.count, m.clck.count>>

NoEpoch == [phase |-> "none", world_size |-> 0, batch_size |-> 0, spe |-> 0, consumed |-> 0]

InitCommon ==
    /\ mpc = [n \in Nodes |-> "server"]
    /\ mnext = [n \in Nodes |-> 0]
    /\ servers = {}
    /\ pc = [w \in Procs |-> "unborn"]
    /\ wa = [w \in Procs |-> NoArgs]
    /\ tr = [w \in Procs |->
                [step |-> 0, spe |-> 0, args_lr |-> cfg.lr, groups |-> <<>>,
                 params |-> ZeroVec, init |-> ZeroVec, vel |-> ZeroVec, batch |-> 0,
                 lr |-> Zero,
                 train |-> TRUE]]
    /\ mt = [w \in Procs |-> Meters]
    /\ vl = [w \in Procs |->
                [step |-> 0, m |-> Meters, batch |-> 0, loss |-> Zero, acc1 |-> Zero,
                 acc5 |-> Zero, ret |-> <<>>, mine |-> <<>>, got |-> <<>>]]
    /\ coll = [n |-> 0, acc |-> <<>>, gen |-> 0, val |-> <<>>]
    /\ fs = [dir |-> FALSE, writers |-> {}, ckpt |-> [epoch |-> 0, state |-> <<>>]]
    /\ hist = [w \in Procs |-> [events |-> <<>>, log |-> <<>>, colls |-> <<>>, lrs |-> <<>>,
                                saved |-> <<>>]]
    /\ meter = [m |-> reset, ups |-> <<>>, calls |-> 0]

-----------------------------------------------------------------------------
(* main() *)

\* lines 91-93: create server if is master
MainServer(n) ==
    /\ mpc[n] = "server"
    /\ servers' = IF IsMaster(n) THEN servers \cup {n} ELSE servers
    /\ mpc' = [mpc EXCEPT ![n] = "launch"]
    /\ UNCHANGED <<cfg, mnext, pc, wa, tr, mt, vl, coll, fs, hist, meter, ep>>

\* lines 101-114: for local_rank in range(ngpus_per_node): Process(worker, ...).start()
MainLaunch(n) ==
    /\ mpc[n] = "launch"
    /\ LET local_rank == mnext[n]
           w == <<n, local_rank>>
       IN  /\ wa' = [wa EXCEPT ![w] =
                        [rank |-> WorkerRank(n, cfg.ngpus, local_rank),
                         world_size |-> WorkerWorldSize(cfg.nodes, cfg.ngpus),
                         ngpus_per_node |-> cfg.ngpus,
                         device |-> -1]]
           /\ pc' = [pc EXCEPT ![w] = "start"]
           /\ IF local_rank + 1 < cfg.ngpus
                 THEN /\ mnext' = [mnext EXCEPT ![n] = local_rank + 1]
                      /\ mpc' = mpc
                 ELSE /\ mnext' = [mnext EXCEPT ![n] = 0]
                      /\ mpc' = [mpc EXCEPT ![n] = "join"]
    /\ UNCHANGED <<cfg, servers, tr, mt, vl, coll, fs, hist, meter, ep>>

\* lines 116-118: for p in procs: p.join()
MainJoin(n) ==
    /\ mpc[n] = "join"
    /\ pc[<<n, mnext[n]>>] = "done"
    /\ IF mnext[n] + 1 < cfg.ngpus
          THEN /\ mnext' = [mnext EXCEPT ![n] = mnext[n] + 1]
               /\ mpc' = mpc
          ELSE /\ mnext' = mnext
               /\ mpc' = [mpc EXCEPT ![n] = "returned"]
    /\ UNCHANGED <<cfg, servers, pc, wa, tr, mt, vl, coll, fs, hist, meter, ep>>

-----------------------------------------------------------------------------
(* The collectives of the framework *)

\* a rank enters a collective with its value; the last rank to enter completes it
Enter(w, val) ==
    LET acc == IF coll.n = 0 THEN val ELSE VAdd(coll.acc, val)
    IN  IF coll.n + 1 >= wa[w].world_size
           THEN [n |-> 0, acc |-> <<>>, gen |-> coll.gen + 1, val |-> acc]
           ELSE [coll EXCEPT !.n = coll.n + 1, !.acc = acc]

\* the collective this worker last entered has completed
Ready(w) == coll.gen >= Len(hist[w].colls)

Logged(w, op) == [hist EXCEPT ![w].colls = Append(@, op)]

-----------------------------------------------------------------------------
(* worker() *)

\* lines 121-145: rank 0 makes the directory; init_process_group; datasets; model
WorkerStart(w) ==
    /\ pc[w] = "start"
    /\ wa[w].world_size > 1 => servers # {}
    /\ fs' = IF wa[w].rank = 0 THEN [fs EXCEPT !.dir = TRUE] ELSE fs
    /\ wa' = IF wa[w].world_size > 1
                THEN [wa EXCEPT ![w].device = DeviceOf(wa[w].rank, wa[w].ngpus_per_node)]
                ELSE wa
    /\ \E p0 \in cfg.initp :
          tr' = [tr EXCEPT ![w].spe = StepsPerEpoch(wa[w].world_size, cfg.batch_size),
                           ![w].params = p0,
                           \* kept for rank 0: the values it will broadcast
                           ![w].init = IF wa[w].rank = 0 THEN p0 ELSE @]
    /\ pc' = [pc EXCEPT ![w] = "sync"]
    /\ UNCHANGED <<cfg, mpc, mnext, servers, mt, vl, coll, hist, meter, ep>>

\* lines 147-149: if world_size > 1: dist.bcast_list_(model.parameters(), dist.WORLD)
WorkerBcast(w) ==
    /\ pc[w] = "sync"
    /\ wa[w].world_size > 1
    /\ coll' = Enter(w, IF wa[w].rank = 0 THEN tr[w].params ELSE ZeroVec)
    /\ hist' = Logged(w, "bcast")
    /\ pc' = [pc EXCEPT ![w] = "bcast_wait"]
    /\ UNCHANGED <<cfg, mpc, mnext, servers, wa, tr, mt, vl, fs, meter, ep>>

\* lines 151-207: gradient manager, lr scaling, optimizer groups, the four meters
WorkerSetup(w) ==
    /\ \/ pc[w] = "sync" /\ wa[w].world_size <= 1
       \/ pc[w] = "bcast_wait" /\ Ready(w)
    /\ LET args_lr == ScaledLr(tr[w].args_lr, wa[w].world_size)
       IN  tr' = [tr EXCEPT
                    ![w].params = IF pc[w] = "bcast_wait" THEN coll.val ELSE @,
                    ![w].args_lr = args_lr,
                    ![w].groups = <<[lr |-> args_lr, weight_decay |-> cfg.weight_decay],
                                    [lr |-> args_lr, weight_decay |-> Zero]>>,
                    ![w].vel = ZeroVec,
                    ![w].step = 0]
    /\ mt' = [mt EXCEPT ![w] = Meters]
    /\ pc' = [pc EXCEPT ![w] = "loop"]
    /\ UNCHANGED <<cfg, mpc, mnext, servers, wa, vl, coll, fs, hist, meter, ep>>

\* lines 209-218, 176-181: adjust_learning_rate(step); next(train_queue); forward and
\* backward of train_step, whose all-reduce callback enters the gradient collective
TrainStep(w) ==
    /\ pc[w] = "loop"
    /\ tr[w].step < TotalSteps(cfg.epochs, tr[w].spe)
    /\ \E b \in cfg.batches :
          LET lr == LrAt(tr[w].args_lr, tr[w].step, cfg.epochs, tr[w].spe)
          IN  /\ tr' = [tr EXCEPT ![w].groups = SetLr(@, lr), ![w].lr = lr, ![w].batch = b]
              /\ hist' = [hist EXCEPT
                    ![w].events = Append(@, <<"batch", tr[w].step>>),
                    ![w].lrs = Append(@, lr),
                    ![w].colls = IF wa[w].world_size > 1 THEN Append(@, "grad") ELSE @]
              /\ coll' = IF wa[w].world_size > 1 THEN Enter(w, BatchGrad(b)) ELSE coll
    /\ pc' = [pc EXCEPT ![w] = IF wa[w].world_size > 1 THEN "grad_wait" ELSE "grad_local"]
    /\ UNCHANGED <<cfg, mpc, mnext, servers, wa, mt, vl, fs, meter, ep>>

\* a slip: the gradient manager attached without the all-reduce callback
LocalGrad(w) == BatchGrad(tr[w].batch)

\* lines 152-155, 181: the gradient opt.step() sees: the all-reduced mean with
\* world_size > 1, else the local one
GradFor(w) ==
    IF pc[w] = "grad_wait" THEN MeanOf(coll.val, wa[w].world_size)
                           ELSE BatchGrad(tr[w].batch)

\* lines 182-183, 220-250: opt.step(); the meters; the rank-0 log line and resets;
\* at the end of an epoch model.eval() and the call of valid()
TrainApply(w) ==
    /\ \/ pc[w] = "grad_local"
       \/ pc[w] = "grad_wait" /\ Ready(w)
    /\ LET b == tr[w].batch
           step == tr[w].step
           grad == GradFor(w)
           sgd == SgdStep(tr[w].groups, tr[w].params, tr[w].vel, grad, cfg.momentum)
           m == UpdateMeters(mt[w], BatchLoss(b), BatchAcc1(b), BatchAcc5(b), BatchTime(b), 1)
           logs == LogsAt(wa[w], step, cfg.print_freq)
           ends == EpochEndsAt(step, tr[w].spe)
       IN  /\ mt' = [mt EXCEPT ![w] = IF logs THEN Meters ELSE m]
           /\ tr' = [tr EXCEPT ![w].params = sgd.params, ![w].vel = sgd.vel,
                               ![w].train = ~ends,
                               ![w].step = IF ends THEN step ELSE step + 1]
           /\ vl' = IF ends THEN [vl EXCEPT ![w].step = 0, ![w].m = Meters, ![w].ret = <<>>,
                                            ![w].mine = <<>>, ![w].got = <<>>]
                            ELSE vl
           /\ hist' = [hist EXCEPT
                 ![w].events = IF ends
                     THEN @ \o <<<<"update", step>>, <<"valid", EpochOf(step, tr[w].spe)>>>>
                     ELSE Append(@, <<"update", step>>),
                 ![w].log = IF logs THEN Append(@, [step |-> step, counts |-> Counts(m)])
                                    ELSE @]
           /\ pc' = [pc EXCEPT ![w] = IF ends THEN "valid" ELSE "loop"]
    /\ UNCHANGED <<cfg, mpc, mnext, servers, wa, coll, fs, meter, ep>>

-----------------------------------------------------------------------------
(* valid() and valid_step *)

\* a slip: only rank 0 takes part in the all-reduces of valid_step
ValidStepRankZero(w) ==
    /\ pc[w] = "valid"
    /\ vl[w].step < cfg.nvalid
    /\ \E b \in cfg.batches :
          /\ vl' = [vl EXCEPT ![w].batch = b, ![w].loss = BatchLoss(b),
                              ![w].acc1 = BatchAcc1(b), ![w].acc5 = BatchAcc5(b),
                              ![w].mine = Append(@, b)]
          /\ coll' = IF wa[w].world_size > 1 /\ wa[w].rank = 0
                        THEN Enter(w, <<BatchLoss(b)>>) ELSE coll
    /\ hist' = IF wa[w].world_size > 1 /\ wa[w].rank = 0 THEN Logged(w, "loss") ELSE hist
    /\ pc' = [pc EXCEPT ![w] = IF wa[w].world_size > 1 /\ wa[w].rank = 0
                                  THEN "v_loss" ELSE "v_local"]
    /\ UNCHANGED <<cfg, mpc, mnext, servers, wa, tr, mt, fs, meter, ep>>

\* lines 267-273, 185-191: the next validation batch; forward; the loss, which with
\* world_size > 1 enters all_reduce_sum
ValidStep(w) ==
    /\ pc[w] = "valid"
    /\ vl[w].step < cfg.nvalid
    /\ \E b \in cfg.batches :
          /\ vl' = [vl EXCEPT ![w].batch = b, ![w].loss = BatchLoss(b),
                              ![w].acc1 = BatchAcc1(b), ![w].acc5 = BatchAcc5(b),
                              ![w].mine = Append(@, b)]
          /\ coll' = IF wa[w].world_size > 1 THEN Enter(w, <<BatchLoss(b)>>) ELSE coll
    /\ hist' = IF wa[w].world_size > 1 THEN Logged(w, "loss") ELSE hist
    /\ pc' = [pc EXCEPT ![w] = IF wa[w].world_size > 1 THEN "v_loss" ELSE "v_local"]
    /\ UNCHANGED <<cfg, mpc, mnext, servers, wa, tr, mt, fs, meter, ep>>

\* lines 191-192: loss = all_reduce_sum(loss) / world_size; acc1 enters all_reduce_sum
ValidLoss(w) ==
    /\ pc[w] = "v_loss"
    /\ Ready(w)
    /\ vl' = [vl EXCEPT ![w].loss = ReducedMean(coll.val[1], wa[w].world_size)]
    /\ coll' = Enter(w, <<vl[w].acc1>>)
    /\ hist' = Logged(w, "acc1")
    /\ pc' = [pc EXCEPT ![w] = "v_acc1"]
    /\ UNCHANGED <<cfg, mpc, mnext, servers, wa, tr, mt, fs, meter, ep>>

\* lines 192-193: acc1 = all_reduce_sum(acc1) / world_size; acc5 enters all_reduce_sum
ValidAcc1(w) ==
    /\ pc[w] = "v_acc1"
    /\ Ready(w)
    /\ vl' = [vl EXCEPT ![w].acc1 = ReducedMean(coll.val[1], wa[w].world_size)]
    /\ coll' = Enter(w, <<vl[w].acc5>>)
    /\ hist' = Logged(w, "acc5")
    /\ pc' = [pc EXCEPT ![w] = "v_acc5"]
    /\ UNCHANGED <<cfg, mpc, mnext, servers, wa, tr, mt, fs, meter, ep>>

\* lines 193-194, 271-279: acc5 = all_reduce_sum(acc5) / world_size; valid_step
\* returns; the meters of valid() are updated with n = image.shape[0]
ValidUpdate(w) ==
    /\ \/ pc[w] = "v_local"
       \/ pc[w] = "v_acc5" /\ Ready(w)
    /\ LET acc5 == IF pc[w] = "v_acc5"
                      THEN ReducedMean(coll.val[1], wa[w].world_size)
                      ELSE vl[w].acc5
           n == BatchImages(vl[w].batch)
       IN  vl' = [vl EXCEPT
                    ![w].acc5 = acc5,
                    ![w].m = UpdateMeters(@, vl[w].loss, vl[w].acc1, acc5,
                                          BatchTime(vl[w].batch), n),
                    ![w].got = Append(@, [loss |-> vl[w].loss, acc1 |-> vl[w].acc1,
                                          acc5 |-> acc5, n |-> n]),
                    ![w].step = @ + 1]
    /\ pc' = [pc EXCEPT ![w] = "valid"]
    /\ UNCHANGED <<cfg, mpc, mnext, servers, wa, tr, mt, coll, fs, hist, meter, ep>>

\* lines 284, 244-257: valid() returns the three averages; model.train(); the log
\* line; megengine.save opens <save>/<arch>/checkpoint.pkl for writing
ValidReturn(w) ==
    /\ pc[w] = "valid"
    /\ vl[w].step >= cfg.nvalid
    /\ vl' = [vl EXCEPT ![w].ret = <<vl[w].m.objs.avg, vl[w].m.top1.avg, vl[w].m.top5.avg>>]
    /\ tr' = [tr EXCEPT ![w].train = TRUE]
    /\ fs' = [fs EXCEPT !.writers = @ \cup {w}]
    /\ pc' = [pc EXCEPT ![w] = "saving"]
    /\ UNCHANGED <<cfg, mpc, mnext, servers, wa, mt, coll, hist, meter, ep>>

\* lines 251-257: the checkpoint {"epoch", "state_dict"} is written and the file closed;
\* the for loop goes on to the next step
SaveEnd(w) ==
    /\ pc[w] = "saving"
    /\ LET epoch == EpochOf(tr[w].step, tr[w].spe)
       IN  /\ fs' = [fs EXCEPT !.writers = @ \ {w},
                               !.ckpt = [epoch |-> epoch, state |-> tr[w].params]]
           /\ hist' = [hist EXCEPT ![w].events = Append(@, <<"save", epoch>>),
                                    ![w].saved = Append(@, tr[w].params)]
    /\ tr' = [tr EXCEPT ![w].step = @ + 1]
    /\ pc' = [pc EXCEPT ![w] = "loop"]
    /\ UNCHANGED <<cfg, mpc, mnext, servers, wa, mt, vl, coll, meter, ep>>

\* line 209: the range is exhausted and worker() returns
WorkerExit(w) ==
    /\ pc[w] = "loop"
    /\ tr[w].step >= TotalSteps(cfg.epochs, tr[w].spe)
    /\ pc' = [pc EXCEPT ![w] = "done"]
    /\ UNCHANGED <<cfg, mpc, mnext, servers, wa, tr, mt, vl, coll, fs, hist, meter, ep>>

-----------------------------------------------------------------------------
(* Runs *)

\* the configurations of a run: nodes and GPUs, the args, the validation set
Config(nodes, ngpus, epochs, batch_size, print_freq, nvalid, lr, mom, wd, batches, initp) ==
    [nodes |-> nodes, ngpus |-> ngpus, epochs |-> epochs, batch_size |-> batch_size,
     print_freq |-> print_freq, nvalid |-> nvalid, lr |-> lr, momentum |-> mom,
     weight_decay |-> wd, batches |-> batches, initp |-> initp]

\* a batch size that gives s steps per epoch
BatchSizeFor(world_size, s) == TrainSetSize \div (world_size * s)

\* runs that exercise the control flow: up to MaxWorld workers, one kind of batch
ControlConfigs ==
    { Config(nd, g, e, BatchSizeFor(nd * g, s), p, nv, <<1, 16>>, Zero, Zero, {1},
             {<<Zero, Zero>>}) :
        nd \in 1..MaxWorld, g \in 1..MaxWorld, e \in 1..MaxEpochs, s \in {1, 2},
        p \in {1, 2}, nv \in 0..MaxValid }

\* runs that exercise the data: one node, one step per epoch, two kinds of batch, differing
\* initial parameters, momentum and weight decay
DataConfigs ==
    { Config(1, g, e, BatchSizeFor(g, s), 1, nv, <<1, 16>>, <<1, 2>>, <<1, 2>>,
             BatchKinds, InitParams) :
        g \in 1..DataMaxWorld, e \in {1, 2}, s \in {1}, nv \in {0, 1} }

DataInit ==
    /\ cfg \in DataConfigs
    /\ InitCommon
    /\ ep = NoEpoch

Init ==
    /\ cfg \in { c \in ControlConfigs : c.nodes * c.ngpus <= MaxWorld }
    /\ InitCommon
    /\ ep = NoEpoch

Next ==
    \/ \E n \in Nodes : MainServer(n)
    \/ \E n \in Nodes : MainLaunch(n)
    \/ \E n \in Nodes : MainJoin(n)
    \/ \E w \in Procs : WorkerStart(w)
    \/ \E w \in Procs : WorkerBcast(w)
    \/ \E w \in Procs : WorkerSetup(w)
    \/ \E w \in Procs : TrainStep(w)
    \/ \E w \in Procs : TrainApply(w)
    \/ \E w \in Procs : ValidStep(w)
    \/ \E w \in Procs : ValidLoss(w)
    \/ \E w \in Procs : ValidAcc1(w)
    \/ \E w \in Procs : ValidUpdate(w)
    \/ \E w \in Procs : ValidReturn(w)
    \/ \E w \in Procs : SaveEnd(w)
    \/ \E w \in Procs : WorkerExit(w)

Spec == Init /\ [][Next]_vars

DataSpec == DataInit /\ [][Next]_vars

-----------------------------------------------------------------------------
(* Bootstrap: runs whose batch size leaves no step in an epoch, so that a worker    *)
(* goes from its start through the broadcast straight to its end.                   *)

BootConfigs ==
    { Config(nd, g, 1, TrainSetSize + 1, 1, 0, <<1, 16>>, Zero, Zero, {1},
             {<<Zero, Zero>>}) :
        nd \in 1..BootMaxWorld, g \in 1..BootMaxWorld }

BootInit ==
    /\ cfg \in { c \in BootConfigs : c.nodes * c.ngpus <= BootMaxWorld }
    /\ InitCommon
    /\ ep = NoEpoch

BootNext ==
    \/ \E n \in Nodes : MainServer(n)
    \/ \E n \in Nodes : MainLaunch(n)
    \/ \E n \in Nodes : MainJoin(n)
    \/ \E w \in Procs : WorkerStart(w)
    \/ \E w \in Procs : WorkerBcast(w)
    \/ \E w \in Procs : WorkerSetup(w)
    \/ \E w \in Procs : WorkerExit(w)

BootSpec == BootInit /\ [][BootNext]_vars

-----------------------------------------------------------------------------
(* An AverageMeter object driven by arbitrary calls, beside a single-worker run    *)
(* whose valid() uses the class.                                                    *)

MeterVals == {<<3, 1>>, <<1, 4>>}
MeterNs == {1, 2}

MeterConfigs ==
    { Config(1, 1, 1, BatchSizeFor(1, 1), 1, nv, <<1, 16>>, Zero, Zero, BatchKinds,
             {<<Zero, Zero>>}) :
        nv \in 0..MeterMaxValid }

MeterInit ==
    /\ cfg \in MeterConfigs
    /\ InitCommon
    /\ ep = NoEpoch

\* AverageMeter.reset()
MeterReset ==
    /\ meter.calls < MeterMaxCalls
    /\ meter' = [m |-> reset, ups |-> <<>>, calls |-> meter.calls + 1]
    /\ UNCHANGED <<cfg, mpc, mnext, servers, pc, wa, tr, mt, vl, coll, fs, hist, ep>>

\* AverageMeter.update(val, n)
MeterUpdate ==
    /\ meter.calls < MeterMaxCalls
    /\ \E val \in MeterVals, n \in MeterNs :
          meter' = [m |-> update(meter.m, val, n),
                    ups |-> Append(meter.ups, <<val, n>>),
                    calls |-> meter.calls + 1]
    /\ UNCHANGED <<cfg, mpc, mnext, servers, pc, wa, tr, mt, vl, coll, fs, hist, ep>>

MeterNext ==
    \/ MeterReset
    \/ MeterUpdate
    \/ \E n \in Nodes : MainServer(n)
    \/ \E n \in Nodes : MainLaunch(n)
    \/ \E n \in Nodes : MainJoin(n)
    \/ \E w \in Procs : WorkerStart(w)
    \/ \E w \in Procs : WorkerSetup(w)
    \/ \E w \in Procs : TrainStep(w)
    \/ \E w \in Procs : TrainApply(w)
    \/ \E w \in Procs : ValidStep(w)
    \/ \E w \in Procs : ValidUpdate(w)
    \/ \E w \in Procs : ValidReturn(w)
    \/ \E w \in Procs : SaveEnd(w)
    \/ \E w \in Procs : WorkerExit(w)

MeterSpec == MeterInit /\ [][MeterNext]_vars

-----------------------------------------------------------------------------
(* The arithmetic of an epoch, for a range of world sizes and batch sizes *)

EpochBatchSizes == {1, 3, 7, 100, 128, 192, 256, 1000, 4096, 100000, 640000, 1280000}

EpochInit ==
    /\ cfg = Config(1, 1, 1, BatchSizeFor(1, 1), 1, 0, <<1, 16>>, Zero, Zero, {1},
                    {<<Zero, Zero>>})
    /\ InitCommon
    /\ ep \in [phase : {"args"}, world_size : 1..EpochMaxWorld,
               batch_size : EpochBatchSizes, spe : {0}, consumed : {0}]

\* line 142, and lines 209-214 over the steps of one epoch: each of the world_size
\* workers takes one batch of batch_size samples per step
EpochRun ==
    /\ ep.phase = "args"
    /\ LET spe == StepsPerEpoch(ep.world_size, ep.batch_size)
       IN  ep' = [ep EXCEPT !.phase = "run", !.spe = spe,
                            !.consumed = spe * ep.world_size * ep.batch_size]
    /\ UNCHANGED <<cfg, mpc, mnext, servers, pc, wa, tr, mt, vl, coll, fs, hist, meter>>

EpochNext == EpochRun

EpochSpec == EpochInit /\ [][EpochNext]_vars

FairSpec == Spec /\ WF_vars(Next)

-----------------------------------------------------------------------------
(* Helpers of the properties *)

IsPrefix(a, b) == Len(a) <= Len(b) /\ SubSeq(b, 1, Len(a)) = a

Started(w) == pc[w] \notin {"unborn", "start"}
Running(w) == pc[w] \notin {"unborn", "start", "sync", "bcast_wait"}
AllDone == \A w \in Procs : pc[w] = "done"

\* the number of optimizer updates a worker has made
Updates(w) == Cardinality({i \in DOMAIN hist[w].events : hist[w].events[i][1] = "update"})

RECURSIVE StepEvents(_, _)
StepEvents(from, to) ==
    IF from > to THEN <<>>
    ELSE <<<<"batch", from>>, <<"update", from>>>> \o StepEvents(from + 1, to)

\* epochs k..E of a run with S steps per epoch: the S steps of each epoch, then one
\* validation and one save carrying the epoch's number
RECURSIVE RunEvents(_, _, _)
RunEvents(k, E, S) ==
    IF k > E THEN <<>>
    ELSE StepEvents((k - 1) * S, k * S - 1) \o <<<<"valid", k>>, <<"save", k>>>>
         \o RunEvents(k + 1, E, S)

InValid(w) == pc[w] \in {"valid", "v_loss", "v_acc1", "v_acc5", "v_local", "saving"}

Launched == {w \in Procs : pc[w] # "unborn"}

RECURSIVE SumOver(_, _)
SumOver(S, f) ==
    IF S = {} THEN Zero
    ELSE LET x == CHOOSE y \in S : TRUE
         IN  RAdd(f[x], SumOver(S \ {x}, f))

-----------------------------------------------------------------------------
(* C1: with E >= 1 epochs and S >= 1 steps per epoch every worker runs the steps     *)
(* 0..E*S-1 in increasing order, each with one mini-batch and one optimizer update;   *)
(* validation then a checkpoint save happen once per epoch, right after step k*S-1,   *)
(* the saved epoch is k, and the checkpoint left by the run has epoch E.              *)
C1_StepsAndCheckpoints ==
    /\ \A w \in Procs :
          (Started(w) /\ tr[w].spe >= 1) =>
             /\ IsPrefix(hist[w].events, RunEvents(1, cfg.epochs, tr[w].spe))
             /\ pc[w] = "done" => hist[w].events = RunEvents(1, cfg.epochs, tr[w].spe)
    /\ (AllDone /\ \A w \in Procs : tr[w].spe >= 1) => fs.ckpt.epoch = cfg.epochs

C1_Witness ==
    /\ cfg.epochs = 2
    /\ cfg.nodes * cfg.ngpus = 2
    /\ AllDone
    /\ \A w \in Procs : tr[w].spe = 2 /\ Len(hist[w].events) = 12

C2_Averaged(w, i) ==
    LET r == vl[w].got[i]
        n == Int2Rat(wa[w].world_size)
        L == [v \in Procs |-> BatchLoss(vl[v].mine[i])]
        A1 == [v \in Procs |-> BatchAcc1(vl[v].mine[i])]
        A5 == [v \in Procs |-> BatchAcc5(vl[v].mine[i])]
    IN  /\ \A v \in Procs : Len(vl[v].mine) >= i
        /\ RMul(r.loss, n) = SumOver(Procs, L)
        /\ RMul(r.acc1, n) = SumOver(Procs, A1)
        /\ RMul(r.acc5, n) = SumOver(Procs, A5)

(* C2: with world_size > 1 the loss, acc1 and acc5 that valid_step returns on a       *)
(* worker are the sums of the workers' local values divided by world_size, so all      *)
(* workers return the same three values for the same batch index; with world_size 1    *)
(* valid_step returns the local values and issues no collective.                       *)
C2_ValidStepMean ==
    \A w \in Procs :
       InValid(w) =>
          /\ \A i \in DOMAIN vl[w].got :
                IF wa[w].world_size > 1
                   THEN /\ C2_Averaged(w, i)
                        /\ \A v \in Procs :
                              (InValid(v) /\ i <= Len(vl[v].got)) =>
                                 /\ vl[v].got[i].loss = vl[w].got[i].loss
                                 /\ vl[v].got[i].acc1 = vl[w].got[i].acc1
                                 /\ vl[v].got[i].acc5 = vl[w].got[i].acc5
                   ELSE /\ vl[w].got[i].loss = BatchLoss(vl[w].mine[i])
                        /\ vl[w].got[i].acc1 = BatchAcc1(vl[w].mine[i])
                        /\ vl[w].got[i].acc5 = BatchAcc5(vl[w].mine[i])
          /\ wa[w].world_size = 1 => hist[w].colls = <<>>

C2_Witness ==
    /\ cfg.ngpus = 2
    /\ \A w \in Procs : InValid(w) /\ Len(vl[w].got) = 1
    /\ vl[<<0, 0>>].mine # vl[<<0, 1>>].mine
    /\ vl[<<0, 0>>].got[1].loss = <<5, 2>>

(* C3 (as amended): the samples all workers take in the steps_per_epoch steps of an     *)
(* epoch, steps_per_epoch * world_size * batch_size, are the largest multiple of       *)
(* world_size * batch_size that does not exceed the nominal training-set size          *)
(* 1280000; they equal it exactly when world_size * batch_size divides 1280000.        *)
C3_LargestMultiple ==
    ep.phase = "run" =>
       LET per_step == ep.world_size * ep.batch_size
       IN  /\ ep.consumed <= TrainSetSize
           /\ TrainSetSize - ep.consumed < per_step
           /\ ep.consumed % per_step = 0
           /\ (ep.consumed = TrainSetSize) <=> (TrainSetSize % per_step = 0)

C3_Witness ==
    /\ ep.phase = "run"
    /\ ep.world_size = 3
    /\ ep.batch_size = 128
    /\ ep.spe = 3333
    /\ ep.consumed = 1279872

(* C3 (as claimed): an epoch is one full pass: the samples taken in the steps of an    *)
(* epoch equal the number of samples of the training set, for every world_size >= 1    *)
(* and batch_size >= 1.                                                                *)
C3_FullPass == ep.phase = "run" => ep.consumed = TrainSetSize

C4_L(w) == <<cfg.lr[1] * wa[w].world_size, cfg.lr[2]>>
C4_T(w) == cfg.epochs * tr[w].spe

(* C4: the learning rate decays linearly.  With L = lr * world_size (scaled once) and  *)
(* T = epochs * steps_per_epoch, every parameter group holds L * (1 - s/T) before the  *)
(* update of step s: L at step 0, strictly decreasing, strictly positive, L/T at the   *)
(* last step.                                                                          *)
C4_LinearDecay ==
    \A w \in Procs :
       Running(w) =>
          LET L == C4_L(w)
              T == C4_T(w)
              lrs == hist[w].lrs
          IN  /\ L[1] * tr[w].args_lr[2] = tr[w].args_lr[1] * L[2]
              /\ \A i \in DOMAIN lrs :
                    \* lrs[i] is the rate of step s = i - 1:  lrs[i] * T = L * (T - s)
                    /\ lrs[i][1] * L[2] * T = L[1] * (T - (i - 1)) * lrs[i][2]
                    /\ lrs[i][1] > 0
                    /\ i > 1 => RLess(lrs[i], lrs[i - 1])
              /\ Len(lrs) >= 1 => lrs[1][1] * L[2] = L[1] * lrs[1][2]
              /\ pc[w] = "done" =>
                    /\ Len(lrs) = T
                    /\ lrs[T][1] * L[2] * T = L[1] * lrs[T][2]
              /\ pc[w] \in {"grad_wait", "grad_local"} =>
                    \A g \in DOMAIN tr[w].groups :
                       tr[w].groups[g].lr = lrs[tr[w].step + 1]

C4_Witness ==
    \E w \in Procs :
       /\ pc[w] = "done"
       /\ wa[w].world_size = 2
       /\ Len(hist[w].lrs) = 4
       /\ hist[w].lrs[4] = <<1, 32>>

RECURSIVE C5_SumN(_)
C5_SumN(ups) == IF ups = <<>> THEN 0 ELSE ups[1][2] + C5_SumN(Tail(ups))

RECURSIVE C5_SumVal(_)
C5_SumVal(ups) ==
    IF ups = <<>> THEN Zero
    ELSE RAdd(RMul(ups[1][1], Int2Rat(ups[1][2])), C5_SumVal(Tail(ups)))

C5_Tracks(m, ups) ==
    /\ m.count = C5_SumN(ups)
    /\ m.sum = C5_SumVal(ups)
    /\ ups = <<>> => m.val = Zero /\ m.avg = Zero /\ m.sum = Zero /\ m.count = 0
    /\ ups # <<>> =>
          /\ m.val = ups[Len(ups)][1]
          /\ m.count > 0
          /\ RMul(m.avg, Int2Rat(m.count)) = m.sum

C5_Percent(x) == RMul(Int2Rat(100), x)

C6_RankAssignment ==
    /\ \A w \in Launched :
          /\ wa[w].rank = w[1] * cfg.ngpus + w[2]
          /\ wa[w].world_size = cfg.nodes * cfg.ngpus
          /\ wa[w].rank \in 0..(cfg.nodes * cfg.ngpus - 1)
          /\ wa[w].rank % wa[w].ngpus_per_node = w[2]
          /\ wa[w].device # -1 => wa[w].device = w[2]
          /\ (Started(w) /\ wa[w].world_size > 1) => wa[w].device = w[2]
          /\ \A v \in Launched : v # w => wa[v].rank # wa[w].rank
          /\ \A v \in Launched :
                (v # w /\ NodeOf(v) = NodeOf(w) /\ wa[v].device # -1)
                   => wa[v].device # wa[w].device
    /\ Launched = Procs =>
          /\ {wa[w].rank : w \in Procs} = 0..(cfg.nodes * cfg.ngpus - 1)
          /\ Cardinality({w \in Procs : wa[w].rank = 0}) = 1
    /\ servers \subseteq {n \in Nodes : n <= 0}
    /\ \A w \in Launched : NodeOf(w) <= 0 => NodeOf(w) \in servers

C6_Witness ==
    /\ cfg.nodes = 2
    /\ cfg.ngpus = 2
    /\ Launched = Procs
    /\ wa[<<1, 1>>].rank = 3
    /\ wa[<<1, 0>>].device = 0

RECURSIVE C7_Lines(_, _, _)
C7_Lines(s, u, P) ==
    IF s >= u THEN <<>>
    ELSE LET c == IF s = 0 THEN 1 ELSE P
         IN  <<[step |-> s, counts |-> <<c, c, c, c>>]>> \o C7_Lines(s + P, u, P)

(* C7: with print_freq P the rank-0 worker writes a training log line exactly at the  *)
(* steps s with s % P = 0 and resets the four meters right after it, so the meters'    *)
(* count in the line is 1 at step 0 and P at every later line; the other workers write *)
(* no training log line and never reset, so their count after step s is s + 1.         *)
C7_LogWindows ==
    \A w \in Procs :
       Running(w) =>
          LET u == Updates(w)
          IN  IF wa[w].rank = 0
                 THEN /\ hist[w].log = C7_Lines(0, u, cfg.print_freq)
                      /\ LET c == IF u = 0 THEN 0 ELSE (u - 1) % cfg.print_freq
                         IN  Counts(mt[w]) = <<c, c, c, c>>
                 ELSE /\ hist[w].log = <<>>
                      /\ Counts(mt[w]) = <<u, u, u, u>>

C7_Witness ==
    /\ cfg.print_freq = 2
    /\ \E w \in Procs : wa[w].rank = 0 /\ Len(hist[w].log) = 2 /\ hist[w].log[2].step = 2
    /\ \E w \in Procs : wa[w].rank = 1 /\ mt[w].objs.count = 4

RECURSIVE C9_Repeat(_, _)
C9_Repeat(q, n) == IF n <= 0 THEN <<>> ELSE q \o C9_Repeat(q, n - 1)

C9_Collectives ==
    <<"bcast">> \o
    C9_Repeat(C9_Repeat(<<"grad">>, StepsPerEpoch(cfg.nodes * cfg.ngpus, cfg.batch_size))
              \o C9_Repeat(<<"loss", "acc1", "acc5">>, cfg.nvalid),
              cfg.epochs)

C9_Matching ==
    \A w \in Procs :
       /\ cfg.nodes * cfg.ngpus > 1 => IsPrefix(hist[w].colls, C9_Collectives)
       /\ cfg.nodes * cfg.ngpus = 1 => hist[w].colls = <<>>
       /\ (pc[w] = "done" /\ cfg.nodes * cfg.ngpus > 1) => hist[w].colls = C9_Collectives
       /\ pc[w] = "done" => Updates(w) = cfg.epochs * tr[w].spe

C9_JoinedAll ==
    \A n \in Nodes : mpc[n] = "returned" => \A w \in Procs : NodeOf(w) = n => pc[w] = "done"

C9_Finished == AllDone /\ \A n \in Nodes : mpc[n] = "returned"

(* C9: with world_size > 1 all workers issue the same sequence of collectives: the     *)
(* parameter broadcast, one gradient all-reduce per step and, after the last step of   *)
(* each epoch, three all-reduces per validation batch; so under fair scheduling no     *)
(* worker waits in a collective for ever, every worker finishes all its steps, and     *)
(* main returns only after every worker it started has ended.                          *)
C9_MatchAndTerminate == [](C9_Matching /\ C9_JoinedAll) /\ <>[]C9_Finished

C9_Witness ==
    /\ C9_Finished
    /\ cfg.nodes = 2
    /\ cfg.nvalid >= 1
    /\ \A w \in Procs : Len(hist[w].colls) = Len(C9_Collectives) /\ Len(hist[w].colls) >= 11

(* C10: at most one worker is writing <save>/<arch>/checkpoint.pkl at any moment, and  *)
(* the directory made by the rank-0 worker exists before any worker saves.             *)
C10_WriteExclusion ==
    /\ \A a, b \in fs.writers : a # b => NodeOf(a) # NodeOf(b)
    /\ fs.writers # {} => fs.dir

====
